---------------------------- MODULE Spec2Model ----------------------------
(***************************************************************************)
(* A model of scripts/l10n_lint.py: the localization lint of Picser.       *)
(*                                                                         *)
(* Text is a sequence of Unicode code points (Python str), so that the     *)
(* regular expressions, the shape filter and sorted() are computed on      *)
(* characters as the code computes them.                                   *)
(***************************************************************************)
EXTENDS Integers, Sequences, FiniteSets, TLC

VARIABLES
    \* ---- the file tree the run reads (never written by the program)
    catalog_exists,   \* Languages/Localizable.xcstrings exists
    catalog_keys,     \* keys of its "strings" object
    root_exists,      \* [SOURCE_DIRS -> BOOLEAN]
    files,            \* the files below the source roots
    \* ---- main()
    pc,               \* position in main()
    dir_idx,          \* index into SOURCE_DIRS of the directory being walked
    visited,          \* files os.walk has already yielded
    localized_keys, string_literals, used_keys, potential_keys, missing, unused,
    out,              \* what has been printed, one event per section or line
    exit_status,      \* value main() returns to sys.exit; -1 until it returns
    \* ---- the text functions taken alone
    segments,         \* a Swift source as lexical segments (ground truth)
    content,          \* text handed to remove_comments / finditer
    stripped,         \* remove_comments(content)
    literals_found,   \* [m.group(1) for m in RE_STRING_LITERAL.finditer(..)]
    literal,          \* one literal handed to the shape filter
    accepted,         \* the shape filter's verdict on it
    stage             \* progress of the text-function specifications

vars == << catalog_exists, catalog_keys, root_exists, files, pc, dir_idx,
           visited, localized_keys, string_literals, used_keys,
           potential_keys, missing, unused, out, exit_status, segments,
           content, stripped, literals_found, literal, accepted, stage >>

fsVars   == << catalog_exists, catalog_keys, root_exists, files >>
mainVars == << pc, dir_idx, visited, localized_keys, string_literals,
               used_keys, potential_keys, missing, unused, out, exit_status >>
textVars == << segments, content, stripped, literals_found, literal,
               accepted, stage >>

---------------------------------------------------------------------------
(* Characters: ord() of the characters the model's texts are written in.   *)

Ord == [ nl |-> 10, sp |-> 32, quote |-> 34, star |-> 42, hyphen |-> 45,
         slash |-> 47, d1 |-> 49, d5 |-> 53, colon |-> 58, H |-> 72,
         A |-> 65, backslash |-> 92, underscore |-> 95,
         a |-> 97, b |-> 98, c |-> 99, d |-> 100, e |-> 101, g |-> 103,
         h |-> 104, i |-> 105, k |-> 107, l |-> 108, m |-> 109, n |-> 110,
         o |-> 111, p |-> 112, s |-> 115, t |-> 116, x |-> 120, y |-> 121,
         z |-> 122, zhong |-> 20013 ]

Quote      == Ord.quote
Backslash  == Ord.backslash
Newline    == Ord.nl
Slash      == Ord.slash
Star       == Ord.star
Underscore == Ord.underscore
Space      == Ord.sp

\* '0'..'9', the ten characters line 86 removes one by one
Digits == 48..57

\* str.isalpha / str.islower of one character, for ASCII and the CJK
\* Unified Ideographs block (alphabetic, uncased)
IsUpperChar(ch) == ch \in 65..90
IsLowerChar(ch) == ch \in 97..122
IsAlphaChar(ch) == IsUpperChar(ch) \/ IsLowerChar(ch) \/ ch \in 19968..40959

Range(s) == { s[i] : i \in 1..Len(s) }

Min(S) == CHOOSE x \in S : \A y \in S : x <= y

---------------------------------------------------------------------------
(* The regular expressions.                                                *)

\* least i >= from with s[i] = c1 and s[i+1] = c2, or 0
IndexOf2(s, c1, c2, from) ==
    LET I == { i \in from..(Len(s) - 1) : s[i] = c1 /\ s[i + 1] = c2 }
    IN  IF I = {} THEN 0 ELSE Min(I)

\* least i >= from with s[i] = "\n", or Len(s) + 1: where MULTILINE $ matches
EndOfLine(s, from) ==
    LET I == { i \in from..Len(s) : s[i] = Newline }
    IN  IF I = {} THEN Len(s) + 1 ELSE Min(I)

\* RE_MULTI_LINE_COMMENT.sub('', s[from:]): /\*.*?\*/ with DOTALL, leftmost
\* match, shortest body, matches do not overlap
RECURSIVE RE_MULTI_LINE_COMMENT_sub(_, _)
RE_MULTI_LINE_COMMENT_sub(s, from) ==
    LET p == IndexOf2(s, Slash, Star, from)
        q == IF p = 0 THEN 0 ELSE IndexOf2(s, Star, Slash, p + 2)
    IN  IF q = 0
        THEN SubSeq(s, from, Len(s))
        ELSE SubSeq(s, from, p - 1) \o RE_MULTI_LINE_COMMENT_sub(s, q + 2)

\* RE_SINGLE_LINE_COMMENT.sub('', s[from:]): //.*$ with MULTILINE; the
\* newline that ends the comment stays
RECURSIVE RE_SINGLE_LINE_COMMENT_sub(_, _)
RE_SINGLE_LINE_COMMENT_sub(s, from) ==
    LET p == IndexOf2(s, Slash, Slash, from)
    IN  IF p = 0
        THEN SubSeq(s, from, Len(s))
        ELSE SubSeq(s, from, p - 1)
                 \o RE_SINGLE_LINE_COMMENT_sub(s, EndOfLine(s, p + 2))

remove_comments(text) ==
    RE_SINGLE_LINE_COMMENT_sub(RE_MULTI_LINE_COMMENT_sub(text, 1), 1)

\* RE_STRING_LITERAL after its opening quote, at position j: the index of
\* the closing quote, or 0 when the pattern does not match here.
\*   [^"\n\\]*    one character that is no quote, newline or backslash
\*   \\.          a backslash and any character but a newline
RECURSIVE LiteralEndAtFirstQuote(_, _)
LiteralEndAtFirstQuote(s, j) ==
    IF j > Len(s) THEN 0
    ELSE IF s[j] = Quote THEN j
    ELSE IF s[j] = Newline THEN 0
    ELSE LiteralEndAtFirstQuote(s, j + 1)

RECURSIVE LiteralEnd(_, _)
LiteralEnd(s, j) ==
    IF j > Len(s) THEN 0
    ELSE IF s[j] = Quote THEN j
    ELSE IF s[j] = Newline THEN 0
    ELSE IF s[j] = Backslash
         THEN IF j + 1 > Len(s) \/ s[j + 1] = Newline
              THEN 0
              ELSE LiteralEnd(s, j + 2)
    ELSE LiteralEnd(s, j + 1)

\* [m.group(1) for m in RE_STRING_LITERAL.finditer(s)], scanning from i
RECURSIVE RE_STRING_LITERAL_finditer(_, _)
RE_STRING_LITERAL_finditer(s, i) ==
    IF i > Len(s) THEN << >>
    ELSE IF s[i] # Quote THEN RE_STRING_LITERAL_finditer(s, i + 1)
    ELSE LET e == LiteralEnd(s, i + 1)
         IN  IF e = 0
             THEN RE_STRING_LITERAL_finditer(s, i + 1)
             ELSE << SubSeq(s, i + 1, e - 1) >>
                      \o RE_STRING_LITERAL_finditer(s, e + 1)

\* the literals one file adds to the set: lines 59-65
FileLiterals(text) == Range(RE_STRING_LITERAL_finditer(remove_comments(text), 1))

---------------------------------------------------------------------------
(* The shape filter of main(), lines 83-90.                                *)

MinKeyLen == 5
MaxKeyLen == 80

\* s.replace('_', '').replace('0', '')...replace('9', '')
StripUnderscoresAndDigits(s) ==
    SelectSeq(s, LAMBDA ch : ch # Underscore /\ ch \notin Digits)

\* str.isalpha(): at least one character and all alphabetic
isalpha(s) == Len(s) > 0 /\ \A i \in 1..Len(s) : IsAlphaChar(s[i])

\* str.islower(): at least one cased character and no uppercase one
islower(s) ==
    /\ \E i \in 1..Len(s) : IsLowerChar(s[i])
    /\ \A i \in 1..Len(s) : ~IsUpperChar(s[i])

IsPotentialKey(s) ==
    /\ Underscore \in Range(s)
    /\ isalpha(StripUnderscoresAndDigits(s))
    /\ islower(s)
    /\ MinKeyLen <= Len(s) /\ Len(s) <= MaxKeyLen
    /\ Space \notin Range(s)

---------------------------------------------------------------------------
(* sorted() on a set of str: increasing code-point order.                  *)

\* a < b for Python str
StrLess(a, b) ==
    \E i \in 1..(Len(a) + 1) :
        /\ i <= Len(b)
        /\ \A j \in 1..(i - 1) : a[j] = b[j]
        /\ (i = Len(a) + 1 \/ a[i] < b[i])

RECURSIVE sorted_descending(_)
sorted_descending(S) ==
    IF S = {} THEN << >>
    ELSE LET most == CHOOSE x \in S : \A y \in S \ {x} : StrLess(y, x)
         IN  << most >> \o sorted_descending(S \ {most})

RECURSIVE sorted(_)
sorted(S) ==
    IF S = {} THEN << >>
    ELSE LET least == CHOOSE x \in S : \A y \in S \ {x} : StrLess(x, y)
         IN  << least >> \o sorted(S \ {least})

---------------------------------------------------------------------------
(* The file tree of a run.                                                 *)

\* SOURCE_DIRS, in the order collect_string_literals walks them
SOURCE_DIRS == << "Picser", "Tests" >>

\* the most files a modelled tree holds
MaxFiles == 3

\* keys a catalog may define: "Hello" "a_b_c" "a_bcd" "z_key"
KeyPool ==
    { << Ord.H, Ord.e, Ord.l, Ord.l, Ord.o >>,
      << Ord.a, Underscore, Ord.b, Underscore, Ord.c >>,
      << Ord.a, Underscore, Ord.b, Ord.c, Ord.d >>,
      << Ord.z, Underscore, Ord.k, Ord.e, Ord.y >> }

\* files a tree may hold; swift is filename.endswith(".swift")
FilePool ==
    { \* "a_bcd" "Hello"
      [ dir |-> "Picser", name |-> "A.swift", swift |-> TRUE,
        text |-> << Quote, Ord.a, Underscore, Ord.b, Ord.c, Ord.d, Quote,
                    Space, Quote, Ord.H, Ord.e, Ord.l, Ord.l, Ord.o, Quote >> ],
      \* "m_key" // "a_b_c"\n
      [ dir |-> "Picser", name |-> "B.swift", swift |-> TRUE,
        text |-> << Quote, Ord.m, Underscore, Ord.k, Ord.e, Ord.y, Quote,
                    Space, Slash, Slash, Space, Quote, Ord.a, Underscore,
                    Ord.b, Underscore, Ord.c, Quote, Newline >> ],
      \* /* "z_key" */ "a_b_c" "b_mis"
      [ dir |-> "Picser", name |-> "Views/C.swift", swift |-> TRUE,
        text |-> << Slash, Star, Space, Quote, Ord.z, Underscore, Ord.k,
                    Ord.e, Ord.y, Quote, Space, Star, Slash, Space, Quote,
                    Ord.a, Underscore, Ord.b, Underscore, Ord.c, Quote,
                    Space, Quote, Ord.b, Underscore, Ord.m, Ord.i, Ord.s,
                    Quote >> ],
      \* "z_key" "a_bcd"
      [ dir |-> "Tests", name |-> "T.swift", swift |-> TRUE,
        text |-> << Quote, Ord.z, Underscore, Ord.k, Ord.e, Ord.y, Quote,
                    Space, Quote, Ord.a, Underscore, Ord.b, Ord.c, Ord.d,
                    Quote >> ],
      \* "n_key"
      [ dir |-> "Picser", name |-> "notes.txt", swift |-> FALSE,
        text |-> << Quote, Ord.n, Underscore, Ord.k, Ord.e, Ord.y, Quote >> ] }

\* a directory holds files only if it exists; a catalog has keys only if
\* it exists
InitTree ==
    /\ catalog_exists \in BOOLEAN
    /\ catalog_keys \in SUBSET KeyPool
    /\ ~catalog_exists => catalog_keys = {}
    /\ files \in { S \in SUBSET FilePool : Cardinality(S) <= MaxFiles }
    /\ root_exists \in [ Range(SOURCE_DIRS) -> BOOLEAN ]
    /\ \A f \in files : root_exists[f.dir]

NoTree ==
    /\ catalog_exists = FALSE
    /\ catalog_keys = {}
    /\ files = {}
    /\ root_exists = [ d \in Range(SOURCE_DIRS) |-> FALSE ]

InitMain ==
    /\ pc = "load"
    /\ dir_idx = 1
    /\ visited = {}
    /\ localized_keys = {}
    /\ string_literals = {}
    /\ used_keys = {}
    /\ potential_keys = {}
    /\ missing = << >>
    /\ unused = << >>
    /\ out = << >>
    /\ exit_status = -1

NoText ==
    /\ segments = << >>
    /\ content = << >>
    /\ stripped = << >>
    /\ literals_found = << >>
    /\ literal = << >>
    /\ accepted = FALSE
    /\ stage = "none"

Init == InitTree /\ InitMain /\ NoText

---------------------------------------------------------------------------
(* main()                                                                  *)

\* line 71: open() of a catalog that does not exist raises
\* FileNotFoundError, which nothing catches
load_localization_keys ==
    /\ pc = "load"
    /\ IF catalog_exists
       THEN /\ localized_keys' = catalog_keys
            /\ pc' = "walk"
       ELSE /\ pc' = "raised"
            /\ UNCHANGED localized_keys
    /\ UNCHANGED << dir_idx, visited, string_literals, used_keys,
                    potential_keys, missing, unused, out, exit_status >>
    /\ UNCHANGED << fsVars, textVars >>

Walking == pc = "walk" /\ dir_idx <= Len(SOURCE_DIRS)

\* lines 51-65: one file of the directory being walked, in whatever order
\* os.walk yields them
WalkFile(f) ==
    /\ Walking
    /\ root_exists[SOURCE_DIRS[dir_idx]]
    /\ f \in files \ visited
    /\ f.dir = SOURCE_DIRS[dir_idx]
    /\ visited' = visited \cup {f}
    /\ string_literals' = IF f.swift
                          THEN string_literals \cup FileLiterals(f.text)
                          ELSE string_literals
    /\ UNCHANGED << pc, dir_idx, localized_keys, used_keys, potential_keys,
                    missing, unused, out, exit_status >>
    /\ UNCHANGED << fsVars, textVars >>

\* line 50: os.walk has yielded every file below the directory
WalkDone ==
    /\ Walking
    /\ root_exists[SOURCE_DIRS[dir_idx]]
    /\ \A f \in files : f.dir = SOURCE_DIRS[dir_idx] => f \in visited
    /\ dir_idx' = dir_idx + 1
    /\ UNCHANGED << pc, visited, localized_keys, string_literals, used_keys,
                    potential_keys, missing, unused, out, exit_status >>
    /\ UNCHANGED << fsVars, textVars >>

\* line 50: os.walk(directory) of a directory that does not exist: scandir
\* fails, onerror is None, and the walk yields nothing
WalkMissingRoot ==
    /\ Walking
    /\ ~root_exists[SOURCE_DIRS[dir_idx]]
    /\ dir_idx' = dir_idx + 1
    /\ UNCHANGED << pc, visited, localized_keys, string_literals, used_keys,
                    potential_keys, missing, unused, out, exit_status >>
    /\ UNCHANGED << fsVars, textVars >>

\* line 75
UsedKeys == string_literals \cap localized_keys

\* lines 83-90
PotentialKeys == { s \in string_literals : IsPotentialKey(s) }

MissingNotSubtracted == sorted(PotentialKeys)

\* line 91
Missing == sorted(PotentialKeys \ localized_keys)

UnusedAgainstPotentialKeys == sorted(localized_keys \ PotentialKeys)

\* line 94
Unused == sorted(localized_keys \ UsedKeys)

\* lines 72-94: collect_string_literals returns and the sets are computed
Reconcile ==
    /\ pc = "walk"
    /\ dir_idx > Len(SOURCE_DIRS)
    /\ used_keys' = UsedKeys
    /\ potential_keys' = PotentialKeys
    /\ missing' = Missing
    /\ unused' = Unused
    /\ pc' = "stats"
    /\ UNCHANGED << dir_idx, visited, localized_keys, string_literals, out,
                    exit_status >>
    /\ UNCHANGED << fsVars, textVars >>

\* An output event is << kind, payload >>; blank lines are not recorded.
Event(kind, payload) == << kind, payload >>

\* the "  - key" lines of a listing, lines 109-110 and 115-116
RECURSIVE Items(_)
Items(keys) ==
    IF keys = << >> THEN << >>
    ELSE << Event("item", Head(keys)) >> \o Items(Tail(keys))

\* lines 97-101
PrintStats ==
    /\ pc = "stats"
    /\ out' = Append(out, Event("stats", << Cardinality(localized_keys),
                                            Cardinality(used_keys),
                                            Len(unused) >>))
    /\ pc' = "check"
    /\ UNCHANGED << dir_idx, visited, localized_keys, string_literals,
                    used_keys, potential_keys, missing, unused, exit_status >>
    /\ UNCHANGED << fsVars, textVars >>

SuccessOnNoMissing == missing = << >>

\* line 103
NothingToReport == missing = << >> /\ unused = << >>

\* lines 103-105
PrintSuccess ==
    /\ pc = "check"
    /\ NothingToReport
    /\ out' = Append(out, Event("success", << >>))
    /\ exit_status' = 0
    /\ pc' = "done"
    /\ UNCHANGED << dir_idx, visited, localized_keys, string_literals,
                    used_keys, potential_keys, missing, unused >>
    /\ UNCHANGED << fsVars, textVars >>

\* lines 107-111
PrintMissing ==
    /\ pc = "check"
    /\ ~NothingToReport
    /\ out' = IF missing # << >>
              THEN Append(out, Event("missing", << >>)) \o Items(missing)
              ELSE out
    /\ pc' = "unused"
    /\ UNCHANGED << dir_idx, visited, localized_keys, string_literals,
                    used_keys, potential_keys, missing, unused, exit_status >>
    /\ UNCHANGED << fsVars, textVars >>

\* lines 113-118
PrintUnused ==
    /\ pc = "unused"
    /\ out' = IF unused # << >>
              THEN Append(Append(out, Event("unused", << >>)) \o Items(unused),
                          Event("note", << >>))
              ELSE out
    /\ pc' = "return"
    /\ UNCHANGED << dir_idx, visited, localized_keys, string_literals,
                    used_keys, potential_keys, missing, unused, exit_status >>
    /\ UNCHANGED << fsVars, textVars >>

ExitCodeOnAnyFinding == IF missing # << >> \/ unused # << >> THEN 1 ELSE 0

\* line 120: 1 if missing else 0
ExitCode == IF missing # << >> THEN 1 ELSE 0

Return ==
    /\ pc = "return"
    /\ exit_status' = ExitCode
    /\ pc' = "done"
    /\ UNCHANGED << dir_idx, visited, localized_keys, string_literals,
                    used_keys, potential_keys, missing, unused, out >>
    /\ UNCHANGED << fsVars, textVars >>

Next ==
    \/ load_localization_keys
    \/ \E f \in FilePool : WalkFile(f)
    \/ WalkDone
    \/ WalkMissingRoot
    \/ Reconcile
    \/ PrintStats
    \/ PrintSuccess
    \/ PrintMissing
    \/ PrintUnused
    \/ Return

Spec == Init /\ [][Next]_vars

---------------------------------------------------------------------------
(* The text functions taken alone: each specification draws an input and   *)
(* applies the function to it.                                             *)

IdleMain ==
    /\ pc = "idle"
    /\ dir_idx = 1
    /\ visited = {}
    /\ localized_keys = {}
    /\ string_literals = {}
    /\ used_keys = {}
    /\ potential_keys = {}
    /\ missing = << >>
    /\ unused = << >>
    /\ out = << >>
    /\ exit_status = -1

SeqsUpTo(S, n) == UNION { [ 1..k -> S ] : k \in 0..n }

\* lines 58-59: content = remove_comments(content)
StripComments ==
    /\ stage = "input"
    /\ stripped' = remove_comments(content)
    /\ stage' = "stripped"
    /\ UNCHANGED << segments, content, literals_found, literal, accepted >>
    /\ UNCHANGED << fsVars, mainVars >>

\* lines 62-65: the literals of the stripped text, in match order
ExtractLiterals ==
    /\ stage = "stripped"
    /\ literals_found' = RE_STRING_LITERAL_finditer(stripped, 1)
    /\ stage' = "extracted"
    /\ UNCHANGED << segments, content, stripped, literal, accepted >>
    /\ UNCHANGED << fsVars, mainVars >>

\* ---- RE_STRING_LITERAL on arbitrary text

\* the longest text drawn over LiteralAlphabet
MaxTextLen == 6

LiteralAlphabet == { Quote, Backslash, Newline, Ord.a }

\* "a\"b_test"
EscapedQuoteExample ==
    << Quote, Ord.a, Backslash, Quote, Ord.b, Underscore, Ord.t, Ord.e,
       Ord.s, Ord.t, Quote >>

LiteralTexts == SeqsUpTo(LiteralAlphabet, MaxTextLen) \cup {EscapedQuoteExample}

InitLiteral ==
    /\ NoTree /\ IdleMain
    /\ segments = << >>
    /\ content = << >>
    /\ stripped \in LiteralTexts
    /\ literals_found = << >>
    /\ literal = << >>
    /\ accepted = FALSE
    /\ stage = "stripped"

SpecLiteral == InitLiteral /\ [][ExtractLiterals]_vars

\* ---- remove_comments and RE_STRING_LITERAL on Swift sources

\* A source is a sequence of lexical segments, so that what is a comment
\* and what is a string literal is known by construction:
\*   string         "body"       body: plain characters and \x pairs
\*   line_comment   //body\n     body: no newline
\*   block_comment  /*body*/     body: no */
\*   code           body         body: no quote, slash or backslash
Segment(kind, body) == [ kind |-> kind, body |-> body ]

SegmentText(seg) ==
    CASE seg.kind = "string"        -> << Quote >> \o seg.body \o << Quote >>
      [] seg.kind = "line_comment"  -> << Slash, Slash >> \o seg.body \o << Newline >>
      [] seg.kind = "block_comment" -> << Slash, Star >> \o seg.body \o << Star, Slash >>
      [] seg.kind = "code"          -> seg.body

RECURSIVE SourceText(_)
SourceText(segs) ==
    IF segs = << >> THEN << >>
    ELSE SegmentText(Head(segs)) \o SourceText(Tail(segs))

\* the most segments a modelled source holds
MaxSegments == 3

SegmentPool ==
    { \* "a_bcd"
      Segment("string", << Ord.a, Underscore, Ord.b, Ord.c, Ord.d >>),
      \* "/*"
      Segment("string", << Slash, Star >>),
      \* "*/"
      Segment("string", << Star, Slash >>),
      \* "h://x"
      Segment("string", << Ord.h, Ord.colon, Slash, Slash, Ord.x >>),
      \* "a\"b"
      Segment("string", << Ord.a, Backslash, Quote, Ord.b >>),
      \* // "c_key"
      Segment("line_comment", << Space, Quote, Ord.c, Underscore, Ord.k,
                                 Ord.e, Ord.y, Quote >>),
      \* // */ 5" "c_key"
      Segment("line_comment", << Space, Star, Slash, Space, Ord.d5, Quote,
                                 Space, Quote, Ord.c, Underscore, Ord.k,
                                 Ord.e, Ord.y, Quote >>),
      \* /* "c_key" */
      Segment("block_comment", << Space, Quote, Ord.c, Underscore, Ord.k,
                                  Ord.e, Ord.y, Quote, Space >>),
      \* a space between tokens
      Segment("code", << Space >>) }

InitScan ==
    /\ NoTree /\ IdleMain
    /\ segments \in SeqsUpTo(SegmentPool, MaxSegments)
    /\ content = SourceText(segments)
    /\ stripped = << >>
    /\ literals_found = << >>
    /\ literal = << >>
    /\ accepted = FALSE
    /\ stage = "input"

NextScan == StripComments \/ ExtractLiterals

SpecScan == InitScan /\ [][NextScan]_vars

\* ---- the shape filter on one literal

\* the longest head drawn over ShapeAlphabet; a head may be followed by a
\* run of "a" that brings the literal to the length limit
MaxHeadLen == 5

\* a A 1 _ space 中 -
ShapeAlphabet ==
    { Ord.a, Ord.A, Ord.d1, Underscore, Space, Ord.zhong, Ord.hyphen }

Padding(n) == [ i \in 1..n |-> Ord.a ]

PaddingLens == { 0, MaxKeyLen - MaxHeadLen, MaxKeyLen - MaxHeadLen + 1 }

ShapeLiterals ==
    { head \o Padding(n) : head \in SeqsUpTo(ShapeAlphabet, MaxHeadLen),
                           n \in PaddingLens }

InitShape ==
    /\ NoTree /\ IdleMain
    /\ segments = << >>
    /\ content = << >>
    /\ stripped = << >>
    /\ literals_found = << >>
    /\ literal \in ShapeLiterals
    /\ accepted = FALSE
    /\ stage = "input"

\* lines 83-90 on one element of string_literals
ApplyShapeFilter ==
    /\ stage = "input"
    /\ accepted' = IsPotentialKey(literal)
    /\ stage' = "filtered"
    /\ UNCHANGED << segments, content, stripped, literals_found, literal >>
    /\ UNCHANGED << fsVars, mainVars >>

SpecShape == InitShape /\ [][ApplyShapeFilter]_vars

---------------------------------------------------------------------------
(* Properties of main().                                                   *)

\* main() has computed its sets (line 94 is behind it)
Reconciled == pc \in { "stats", "check", "unused", "return", "done" }

\* what the tree holds, whatever the order it is walked in
TreeLiterals ==
    UNION { FileLiterals(f.text) : f \in { g \in files : g.swift } }
TreeMissing == { s \in TreeLiterals : IsPotentialKey(s) } \ catalog_keys
TreeUnused  == catalog_keys \ TreeLiterals

\* the keys listed under the section header of the given kind
Listing(kind) ==
    LET H == { i \in 1..Len(out) : out[i][1] = kind }
    IN  IF H = {} THEN << >>
        ELSE LET h == Min(H)
                 N == { n \in 0..(Len(out) - h) :
                            \A j \in (h + 1)..(h + n) : out[j][1] = "item" }
                 len == CHOOSE n \in N : \A m \in N : m <= n
             IN  [ j \in 1..len |-> out[h + j][2] ]

StrictlyIncreasing(l) == \A i \in 1..(Len(l) - 1) : StrLess(l[i], l[i + 1])

\* the kinds of the events printed, the listed keys left out
Sections ==
    LET s == SelectSeq(out, LAMBDA ev : ev[1] # "item")
    IN  [ i \in 1..Len(s) |-> s[i][1] ]

ExpectedSections ==
    IF missing = << >> /\ unused = << >>
    THEN << "stats", "success" >>
    ELSE << "stats" >>
             \o (IF missing # << >> THEN << "missing" >> ELSE << >>)
             \o (IF unused # << >> THEN << "unused", "note" >> ELSE << >>)

IsPrefix(a, b) == Len(a) <= Len(b) /\ SubSeq(b, 1, Len(a)) = a

\* C1: main() returns 1 exactly when the missing listing is non-empty and 0
\* otherwise, whatever the unused listing holds.
ExitStatusIffMissing ==
    pc = "done" =>
        /\ exit_status \in { 0, 1 }
        /\ exit_status = 1 <=> missing # << >>
        /\ exit_status = 1 <=> TreeMissing # {}

ExitZeroWithUnusedOnly ==
    pc = "done" /\ missing = << >> /\ unused # << >> /\ exit_status = 0

\* C2, as stated: missing = K - C and unused = C - K for the one
\* shape-filtered code-key set K.
BothDifferencesAgainstCodeKeys ==
    Reconciled =>
        /\ Range(missing) = PotentialKeys \ localized_keys
        /\ Range(unused) = localized_keys \ PotentialKeys

\* C2, amended: missing = K - C for the shape-filtered K, and unused = C - L
\* for the set L of all extracted literals, shape-filtered or not: a catalog
\* key is reported unused exactly when no extracted literal equals it.
MissingAgainstCodeKeysUnusedAgainstLiterals ==
    Reconciled =>
        /\ Range(missing) = PotentialKeys \ localized_keys
        /\ Range(unused) = localized_keys \ string_literals
        /\ \A k \in localized_keys :
               k \in Range(unused) <=> k \notin string_literals

CatalogKeyUsedButNotKeyShaped ==
    /\ Reconciled
    /\ missing # << >>
    /\ unused # << >>
    /\ \E k \in localized_keys \cap string_literals : ~IsPotentialKey(k)

\* C3: a run whose catalog file or one of whose source roots does not exist
\* ends in an uncaught error and never reaches the report.
MissingInputIsFatal ==
    (~catalog_exists \/ \E d \in Range(SOURCE_DIRS) : ~root_exists[d])
        => ~Reconciled

\* C7: each printed listing is strictly increasing, and is the listing the
\* tree determines whatever the order its files were walked in.
ListingsSortedWhateverTheWalk ==
    /\ StrictlyIncreasing(Listing("missing"))
    /\ StrictlyIncreasing(Listing("unused"))
    /\ pc = "done" =>
           /\ Range(Listing("missing")) = TreeMissing
           /\ Range(Listing("unused")) = TreeUnused

TwoKeysInEachListing ==
    /\ pc = "done"
    /\ Len(Listing("missing")) >= 2
    /\ Len(Listing("unused")) >= 2
    /\ Cardinality(visited) >= 2

\* C8: the statistics come first; then the success message alone, exactly
\* when missing and unused are both empty, or else the missing section
\* (exactly when missing is non-empty) followed by the unused section and
\* its note (exactly when unused is non-empty).
ReportOrder ==
    /\ out # << >> => IsPrefix(Sections, ExpectedSections)
    /\ pc = "done" => Sections = ExpectedSections
    /\ Reconciled \/ out = << >>

MissingThenUnusedPrinted ==
    /\ pc = "done"
    /\ Sections = << "stats", "missing", "unused", "note" >>

\* C9: used and unused partition the catalog keys, the printed counts add
\* up, and missing holds no catalog key.
SetsPartitionCatalog ==
    Reconciled =>
        /\ used_keys \cap Range(unused) = {}
        /\ used_keys \cup Range(unused) = localized_keys
        /\ Range(missing) \cap localized_keys = {}
        /\ Cardinality(Range(unused)) = Len(unused)
        /\ \A i \in 1..Len(out) :
               out[i][1] = "stats" => out[i][2][2] + out[i][2][3] = out[i][2][1]

UsedUnusedAndMissingAllNonEmpty ==
    /\ pc = "done"
    /\ used_keys # {}
    /\ unused # << >>
    /\ missing # << >>
    /\ potential_keys \cap localized_keys # {}

---------------------------------------------------------------------------
(* Properties of the text functions.                                       *)

\* t occurs in s as a contiguous run
IsSubstring(t, s) ==
    \E i \in 1..(Len(s) - Len(t) + 1) : SubSeq(s, i, i + Len(t) - 1) = t

Quoted(t) == << Quote >> \o t \o << Quote >>

SegmentsOf(segs, kinds) ==
    { segs[i] : i \in { j \in 1..Len(segs) : segs[j].kind \in kinds } }

\* the string literals of the source that lie outside every comment
LiveLiterals(segs) == { seg.body : seg \in SegmentsOf(segs, { "string" }) }

\* the key-shaped literals quoted inside a comment of the source
CommentedKeys(segs) ==
    UNION { { SubSeq(seg.body, i, j) : i \in 1..Len(seg.body),
                                       j \in 1..Len(seg.body) }
            : seg \in SegmentsOf(segs, { "line_comment", "block_comment" }) }

CommentOnlyKeys(segs) ==
    { k \in CommentedKeys(segs) :
          /\ IsPotentialKey(k)
          /\ \E seg \in SegmentsOf(segs, { "line_comment", "block_comment" }) :
                 IsSubstring(Quoted(k), seg.body)
          /\ k \notin LiveLiterals(segs) }

\* C4: a key-shaped literal that occurs only inside comments is not among
\* the literals extracted from the comment-stripped text, whatever literals
\* and comments surround it.
CommentOnlyKeysNotExtracted ==
    stage = "extracted" =>
        \A k \in CommentOnlyKeys(segments) : k \notin Range(literals_found)

\* C10: every string literal outside all comments is extracted, and every
\* extracted literal is a double-quoted literal of the original text, also
\* when a literal holds //, /* or */.
LiveLiteralsExtracted ==
    stage = "extracted" =>
        /\ LiveLiterals(segments) \subseteq Range(literals_found)
        /\ \A l \in Range(literals_found) : IsSubstring(Quoted(l), content)

\* the shape the filter is said to keep: an underscore, only lowercase
\* letters, digits and underscores, 5 to 80 characters, no whitespace
ClaimedShape(s) ==
    /\ Underscore \in Range(s)
    /\ \A i \in 1..Len(s) :
           IsLowerChar(s[i]) \/ s[i] \in Digits \/ s[i] = Underscore
    /\ MinKeyLen <= Len(s) /\ Len(s) <= MaxKeyLen
    /\ Space \notin Range(s)

\* C5: the shape filter keeps a literal if and only if it has the claimed
\* shape.
ShapeFilterIffClaimedShape ==
    stage = "filtered" => (accepted <=> ClaimedShape(literal))

\* the number of backslashes that immediately precede position i of s
BackslashesBefore(s, i) ==
    LET N == { n \in 0..(i - 1) : \A j \in (i - n)..(i - 1) : s[j] = Backslash }
    IN  CHOOSE n \in N : \A m \in N : m <= n

\* position i of s is the second character of a backslash escape
IsEscapedAt(s, i) == BackslashesBefore(s, i) % 2 = 1

\* inner text in which every quote is escaped, that holds no newline, and
\* after which a quote would not be escaped
IsEscapedBody(b) ==
    /\ \A i \in 1..Len(b) : b[i] = Quote => IsEscapedAt(b, i)
    /\ ~IsEscapedAt(b, Len(b) + 1)
    /\ Newline \notin Range(b)

\* C6: an escaped quote never ends a literal: the inner text of every
\* extracted literal is raw text whose quotes are all escaped and whose
\* closing quote is not, so a text that is one literal with escaped
\* characters, such as "a\"b_test", yields that one literal and its raw
\* inner text.
EscapedQuoteNeverEndsLiteral ==
    stage = "extracted" =>
        /\ \A k \in 1..Len(literals_found) : IsEscapedBody(literals_found[k])
        /\ \A k \in 1..Len(literals_found) :
               IsSubstring(Quoted(literals_found[k]), stripped)
        /\ LET body == SubSeq(stripped, 2, Len(stripped) - 1)
           IN  (Len(stripped) >= 2 /\ stripped = Quoted(body) /\ IsEscapedBody(body))
                   => literals_found = << body >>
        /\ stripped = EscapedQuoteExample =>
               literals_found = << << Ord.a, Backslash, Quote, Ord.b, Underscore,
                                      Ord.t, Ord.e, Ord.s, Ord.t >> >>

EscapedQuoteExampleExtracted ==
    /\ stage = "extracted"
    /\ stripped = EscapedQuoteExample
    /\ Len(literals_found) = 1
    /\ Quote \in Range(literals_found[1])

=============================================================================
